---------------------------- MODULE Spec2Model ----------------------------
(***************************************************************************)
(* A model of scripts/fetch_aurora_data.py: the four source readers, the   *)
(* indicator and traffic-light functions, the recommendation badge, the    *)
(* notification gate and main.                                             *)
(*                                                                         *)
(* Conventions.                                                            *)
(*   - A Python value that may be None is a sequence: << >> is None and    *)
(*     <<v>> is the value v.                                               *)
(*   - Percentages given to the program (aurora probability, cloud         *)
(*     coverage) are whole numbers; the indicator and the regional average *)
(*     are results of round(x, 1) and are kept as integers counting tenths.*)
(*   - Coordinates given on the command line are kept in hundredths of a   *)
(*     degree, grid coordinates in whole degrees.                          *)
(*   - Times are integers on the fixed UTC+2 clock.                        *)
(***************************************************************************)
EXTENDS Integers, Sequences, FiniteSets, TLC

None == << >>
Some(v) == <<v>>
IsNone(o) == o = << >>
Val(o) == o[1]

Max2(a, b) == IF a >= b THEN a ELSE b
Min2(a, b) == IF a <= b THEN a ELSE b
Abs(a) == IF a >= 0 THEN a ELSE 0 - a

(* round(): n/d (d > 0) to the nearest integer, an exact tie to the even one *)
RoundHalfEven(n, d) ==
    LET q == n \div d
        r == n - q * d
    IN  IF 2 * r < d THEN q
        ELSE IF 2 * r > d THEN q + 1
        ELSE IF q % 2 = 0 THEN q ELSE q + 1

(* round(x, 1) of x = n/d, as a count of tenths *)
SCALE == 10
Round1(n, d) == RoundHalfEven(n * SCALE, d)

(* ------------------------------------------------------------------ *)
(* Program constants                                                   *)
(* ------------------------------------------------------------------ *)
CLOUD_BREAK == 50
FULL_PERCENT == 100
RED_MIN == 50
YELLOW_MIN == 25
GREEN_MIN == 10

(* ------------------------------------------------------------------ *)
(* calculate_aurora_indicator: probability and clouds are optional      *)
(* whole percentages, the result counts tenths.                         *)
(* visibility is VisNum/VisDen, indicator is probability * visibility.  *)
(* ------------------------------------------------------------------ *)
VisDen == FULL_PERCENT - CLOUD_BREAK

IndicatorPenaltyInverted(aurora_probability, clouds) ==
    IF IsNone(aurora_probability) THEN 0
    ELSE LET visNum == IF IsNone(clouds) \/ Val(clouds) <= CLOUD_BREAK
                       THEN VisDen
                       ELSE Val(clouds) - CLOUD_BREAK
             num == Val(aurora_probability) * visNum
             clamped == Max2(0, Min2(FULL_PERCENT * VisDen, num))
         IN  Round1(clamped, VisDen)

calculate_aurora_indicator(aurora_probability, clouds) ==
    IF IsNone(aurora_probability) THEN 0
    ELSE LET visNum == IF IsNone(clouds) \/ Val(clouds) <= CLOUD_BREAK
                       THEN VisDen
                       ELSE FULL_PERCENT - Val(clouds)
             num == Val(aurora_probability) * visNum
             clamped == Max2(0, Min2(FULL_PERCENT * VisDen, num))
         IN  Round1(clamped, VisDen)

(* ------------------------------------------------------------------ *)
(* calculate_traffic_light: the indicator counts tenths.                *)
(* ------------------------------------------------------------------ *)
TrafficLightExclusive(aurora_indicator) ==
    IF aurora_indicator > RED_MIN * SCALE THEN "red"
    ELSE IF aurora_indicator > YELLOW_MIN * SCALE THEN "yellow"
    ELSE IF aurora_indicator > GREEN_MIN * SCALE THEN "green"
    ELSE "black"

calculate_traffic_light(aurora_indicator) ==
    IF aurora_indicator >= RED_MIN * SCALE THEN "red"
    ELSE IF aurora_indicator >= YELLOW_MIN * SCALE THEN "yellow"
    ELSE IF aurora_indicator >= GREEN_MIN * SCALE THEN "green"
    ELSE "black"

(* ------------------------------------------------------------------ *)
(* generate_badge, get_recommendation_badge                             *)
(* ------------------------------------------------------------------ *)
generate_badge(label, message, color) ==
    [schemaVersion |-> 1, label |-> label, message |-> message, color |-> color]

RecommendationMessage(traffic_light) ==
    CASE traffic_light = "red" -> "Pretty sure"
      [] traffic_light = "yellow" -> "Worth checking"
      [] traffic_light = "green" -> "Probably not"
      [] traffic_light = "black" -> "Definitely not"
      [] OTHER -> "Unknown"

RecommendationBadgeSameColor(traffic_light) ==
    generate_badge("Current Status", RecommendationMessage(traffic_light),
                   traffic_light)

get_recommendation_badge(traffic_light) ==
    generate_badge("Current Status", RecommendationMessage(traffic_light),
                   IF traffic_light /= "black" THEN traffic_light ELSE "gray")


(* ------------------------------------------------------------------ *)
(* fetch_json.  A response is what urlopen, read, decode and json.loads *)
(* make of one request:                                                 *)
(*   [kind |-> "ok", data |-> d]   a body that decodes and parses to d  *)
(*                                 (d = None is the JSON value null)    *)
(*   [kind |-> e]                  the exception e was raised           *)
(* URLError covers a refused or unresolved connection and a timeout     *)
(* while connecting; HTTPError (a subclass of URLError) a 4xx or 5xx    *)
(* answer; TimeoutError a timeout while waiting for or reading the      *)
(* answer; RemoteDisconnected and IncompleteRead a connection closed    *)
(* early; UnicodeDecodeError a body that is not UTF-8; JSONDecodeError  *)
(* a body that is not JSON.                                             *)
(* ------------------------------------------------------------------ *)
FetchExceptions ==
    {"URLError", "HTTPError", "TimeoutError", "RemoteDisconnected",
     "IncompleteRead", "UnicodeDecodeError", "JSONDecodeError"}

Returned(v) == [raised |-> "", value |-> v]
Raised(e) == [raised |-> e, value |-> None]

(* except (urllib.error.URLError, json.JSONDecodeError) *)
fetch_json_catches(e) == e \in {"URLError", "HTTPError", "JSONDecodeError"}

fetch_json(response) ==
    IF response.kind = "ok" THEN Returned(response.data)
    ELSE IF fetch_json_catches(response.kind) THEN Returned(None)
    ELSE Raised(response.kind)

(* ------------------------------------------------------------------ *)
(* fetch_cloud_coverage.  data: Some([shape |-> "forecast",             *)
(* timeseries |-> a sequence of optional cloud_area_fraction values]),  *)
(* or Some([shape |-> "malformed"]) for JSON of another shape.          *)
(* ------------------------------------------------------------------ *)
fetch_cloud_coverage(response) ==
    LET r == fetch_json(response)
    IN  IF r.raised /= "" THEN r
        ELSE IF IsNone(r.value) THEN Returned(None)
        ELSE LET data == Val(r.value)
             IN  IF data.shape /= "forecast" THEN Returned(None)
                 ELSE IF Len(data.timeseries) > 0
                      THEN Returned(data.timeseries[1])
                      ELSE Returned(None)

(* ------------------------------------------------------------------ *)
(* fetch_ovation_data.  data: Some([shape |-> "grid", coordinates |->   *)
(* a sequence of cells [lon, lat, aurora]]); aurora is optional, None   *)
(* standing for a value float() rejects.  lat and lon are hundredths.   *)
(* The result value is [point, region], region counting tenths.         *)
(* ------------------------------------------------------------------ *)
HUNDREDTHS == 100
REGION_RADIUS == 1

SeqSum(s) ==
    LET f[i \in 0..Len(s)] == IF i = 0 THEN 0 ELSE f[i - 1] + s[i]
    IN  f[Len(s)]

SetMax(S) == CHOOSE m \in S : \A x \in S : x <= m

NoOvation == [point |-> None, region |-> None]

ParseOvationOpenWindow(coordinates, lat, lon) ==
    LET target_lat == RoundHalfEven(lat, HUNDREDTHS)
        target_lon == RoundHalfEven(lon, HUNDREDTHS)
        IsPoint(c) == c.lat = target_lat /\ c.lon = target_lon
        InRegion(c) == /\ target_lon - REGION_RADIUS < c.lon
                       /\ c.lon < target_lon + REGION_RADIUS
                       /\ target_lat - REGION_RADIUS < c.lat
                       /\ c.lat < target_lat + REGION_RADIUS
        points == {i \in 1..Len(coordinates) : IsPoint(coordinates[i])}
        regional == SelectSeq(coordinates, InRegion)
        regional_values == [i \in 1..Len(regional) |-> Val(regional[i].aurora)]
    IN  IF \E i \in 1..Len(regional) : IsNone(regional[i].aurora)
        THEN NoOvation
        ELSE [point |-> IF points = {} THEN None
                        ELSE coordinates[SetMax(points)].aurora,
              region |-> IF Len(regional) = 0 THEN None
                         ELSE Some(Round1(SeqSum(regional_values), Len(regional)))]

ParseOvation(coordinates, lat, lon) ==
    LET target_lat == RoundHalfEven(lat, HUNDREDTHS)
        target_lon == RoundHalfEven(lon, HUNDREDTHS)
        IsPoint(c) == c.lat = target_lat /\ c.lon = target_lon
        InRegion(c) == /\ target_lon - REGION_RADIUS <= c.lon
                       /\ c.lon <= target_lon + REGION_RADIUS
                       /\ target_lat - REGION_RADIUS <= c.lat
                       /\ c.lat <= target_lat + REGION_RADIUS
        points == {i \in 1..Len(coordinates) : IsPoint(coordinates[i])}
        regional == SelectSeq(coordinates, InRegion)
        regional_values == [i \in 1..Len(regional) |-> Val(regional[i].aurora)]
    IN  \* float(aurora) raises on the first cell of the window it rejects;
        \* except Exception then returns None, None
        IF \E i \in 1..Len(regional) : IsNone(regional[i].aurora)
        THEN NoOvation
        ELSE [point |-> IF points = {} THEN None
                        ELSE coordinates[SetMax(points)].aurora,
              region |-> IF Len(regional) = 0 THEN None
                         ELSE Some(Round1(SeqSum(regional_values), Len(regional)))]

fetch_ovation_data(response, lat, lon) ==
    LET r == fetch_json(response)
    IN  IF r.raised /= "" THEN r
        ELSE IF IsNone(r.value) THEN Returned(NoOvation)
        ELSE LET data == Val(r.value)
             IN  IF data.shape /= "grid" THEN Returned(NoOvation)
                 ELSE Returned(ParseOvation(data.coordinates, lat, lon))

(* ------------------------------------------------------------------ *)
(* fetch_kp_indices.  data: Some([shape |-> "table", rows |-> the rows, *)
(* header first]); a row is [kp, tag]: kp is optional, None standing    *)
(* for a value float() rejects or a row too short to hold one, and tag  *)
(* is "" for a row with fewer than three columns.  The header row is    *)
(* ["time_tag", "Kp", "observed", "noaa_scale"].                        *)
(* ------------------------------------------------------------------ *)
KpHeader == [kp |-> None, tag |-> "observed"]

NoKp == [current |-> None, h3 |-> None, h6 |-> None]

SkipHeader(data) == SubSeq(data, 2, Len(data))

ParseKpFirstObserved(rows) ==
    LET observed == {i \in 1..Len(rows) : rows[i].tag = "observed"}
    IN  IF observed = {} THEN NoKp
        ELSE LET idx == CHOOSE i \in observed : \A j \in observed : i <= j
                 used == {i \in {idx, idx + 1, idx + 2} : i <= Len(rows)}
             IN  IF \E i \in used : IsNone(rows[i].kp) THEN NoKp
                 ELSE [current |-> rows[idx].kp,
                       h3 |-> IF idx + 1 <= Len(rows) THEN rows[idx + 1].kp ELSE None,
                       h6 |-> IF idx + 2 <= Len(rows) THEN rows[idx + 2].kp ELSE None]

ParseKp(rows) ==
    LET observed == {i \in 1..Len(rows) : rows[i].tag = "observed"}
    IN  IF observed = {} THEN NoKp
        ELSE LET last_observed_idx == SetMax(observed)
                 used == {i \in {last_observed_idx, last_observed_idx + 1,
                                 last_observed_idx + 2} : i <= Len(rows)}
             IN  \* a float() that raises makes except Exception return
                 \* None, None, None
                 IF \E i \in used : IsNone(rows[i].kp) THEN NoKp
                 ELSE [current |-> rows[last_observed_idx].kp,
                       h3 |-> IF last_observed_idx + 1 <= Len(rows)
                              THEN rows[last_observed_idx + 1].kp ELSE None,
                       h6 |-> IF last_observed_idx + 2 <= Len(rows)
                              THEN rows[last_observed_idx + 2].kp ELSE None]

fetch_kp_indices(response) ==
    LET r == fetch_json(response)
    IN  IF r.raised /= "" THEN r
        ELSE IF IsNone(r.value) THEN Returned(NoKp)
        ELSE LET data == Val(r.value)
             IN  IF data.shape /= "table" THEN Returned(NoKp)
                 ELSE Returned(ParseKp(SkipHeader(data.rows)))

(* ------------------------------------------------------------------ *)
(* fetch_solar_wind.  data: Some([shape |-> "summary", Bz |-> ..,       *)
(* Bt |-> ..]), each field optional (None: the key is missing or null). *)
(* ------------------------------------------------------------------ *)
NoWind == [bz |-> None, bt |-> None]

fetch_solar_wind(response) ==
    LET r == fetch_json(response)
    IN  IF r.raised /= "" THEN r
        ELSE IF IsNone(r.value) THEN Returned(NoWind)
        ELSE LET data == Val(r.value)
             IN  IF data.shape /= "summary" THEN Returned(NoWind)
                 ELSE Returned([bz |-> data.Bz, bt |-> data.Bt])


(* ------------------------------------------------------------------ *)
(* send_pushover_notification: the guards.                              *)
(* An environment variable is optional text: None when unset.           *)
(* ------------------------------------------------------------------ *)
Truthy(v) == ~IsNone(v) /\ Val(v) /= ""

REASON_NOT_ACTIONS == "not running on GitHub Actions"
REASON_CREDENTIALS == "credentials not configured"
REASON_BEFORE == "before window"
REASON_AFTER == "after window"
REASON_BELOW_YELLOW == "indicator below yellow"

GUARD_ACTIONS == "GITHUB_ACTIONS"
GUARD_CREDENTIALS == "credentials"
GUARD_WINDOW == "window"
GUARD_CLASS == "traffic_light"

(* if notify_start or notify_end: a datetime is always true *)
window_configured(notify_start, notify_end) ==
    ~IsNone(notify_start) \/ ~IsNone(notify_end)

BeforeWindowClosedStart(t, notify_start) ==
    ~IsNone(notify_start) /\ t <= Val(notify_start)

(* if notify_start and now < notify_start *)
before_window(t, notify_start) ==
    ~IsNone(notify_start) /\ t < Val(notify_start)

(* if notify_end and now > notify_end *)
after_window(t, notify_end) ==
    ~IsNone(notify_end) /\ t > Val(notify_end)

(* traffic_light in ("yellow", "red") *)
notifies_on(traffic_light) == traffic_light \in {"yellow", "red"}

Skip(checked, reason, read_clock) ==
    [checked |-> checked, reason |-> reason, read_clock |-> read_clock]

GuardsClassBeforeWindow(env, notify_start, notify_end, traffic_light, t) ==
    IF ~Truthy(env.GITHUB_ACTIONS)
    THEN Skip(<<GUARD_ACTIONS>>, REASON_NOT_ACTIONS, FALSE)
    ELSE IF ~Truthy(env.PUSHOVER_TOKEN) \/ ~Truthy(env.PUSHOVER_USER)
    THEN Skip(<<GUARD_ACTIONS, GUARD_CREDENTIALS>>, REASON_CREDENTIALS, FALSE)
    ELSE IF ~notifies_on(traffic_light)
    THEN Skip(<<GUARD_ACTIONS, GUARD_CREDENTIALS, GUARD_CLASS>>,
              REASON_BELOW_YELLOW, FALSE)
    ELSE IF window_configured(notify_start, notify_end)
            /\ before_window(t, notify_start)
    THEN Skip(<<GUARD_ACTIONS, GUARD_CREDENTIALS, GUARD_CLASS, GUARD_WINDOW>>,
              REASON_BEFORE, TRUE)
    ELSE IF window_configured(notify_start, notify_end)
            /\ after_window(t, notify_end)
    THEN Skip(<<GUARD_ACTIONS, GUARD_CREDENTIALS, GUARD_CLASS, GUARD_WINDOW>>,
              REASON_AFTER, TRUE)
    ELSE Skip(<<GUARD_ACTIONS, GUARD_CREDENTIALS, GUARD_CLASS, GUARD_WINDOW>>,
              "", window_configured(notify_start, notify_end))

(* The guards of send_pushover_notification in the order of the code; t is
   what datetime.now(FINNISH_TZ) returns if it is called.  reason = "" when
   every guard passes. *)
notification_guards(env, notify_start, notify_end, traffic_light, t) ==
    IF ~Truthy(env.GITHUB_ACTIONS)
    THEN Skip(<<GUARD_ACTIONS>>, REASON_NOT_ACTIONS, FALSE)
    ELSE IF ~Truthy(env.PUSHOVER_TOKEN) \/ ~Truthy(env.PUSHOVER_USER)
    THEN Skip(<<GUARD_ACTIONS, GUARD_CREDENTIALS>>, REASON_CREDENTIALS, FALSE)
    ELSE IF window_configured(notify_start, notify_end)
            /\ before_window(t, notify_start)
    THEN Skip(<<GUARD_ACTIONS, GUARD_CREDENTIALS, GUARD_WINDOW>>,
              REASON_BEFORE, TRUE)
    ELSE IF window_configured(notify_start, notify_end)
            /\ after_window(t, notify_end)
    THEN Skip(<<GUARD_ACTIONS, GUARD_CREDENTIALS, GUARD_WINDOW>>,
              REASON_AFTER, TRUE)
    ELSE IF ~notifies_on(traffic_light)
    THEN Skip(<<GUARD_ACTIONS, GUARD_CREDENTIALS, GUARD_WINDOW, GUARD_CLASS>>,
              REASON_BELOW_YELLOW, window_configured(notify_start, notify_end))
    ELSE Skip(<<GUARD_ACTIONS, GUARD_CREDENTIALS, GUARD_WINDOW, GUARD_CLASS>>,
              "", window_configured(notify_start, notify_end))

(* ------------------------------------------------------------------ *)
(* send_pushover_notification: the send.  An outcome of the one         *)
(* urlopen call is the status of a 2xx answer ("200", "204") or the     *)
(* exception raised: HTTPError for a 4xx or 5xx answer, URLError for a  *)
(* failed connection, TimeoutError and RemoteDisconnected for an answer *)
(* that does not come.                                                  *)
(* ------------------------------------------------------------------ *)
SendOutcomes ==
    {"200", "204", "HTTPError", "URLError", "TimeoutError", "RemoteDisconnected"}

(* except urllib.error.URLError *)
send_catches(e) == e \in {"URLError", "HTTPError"}

pushover_send(outcome) ==
    IF outcome = "200" THEN Returned(TRUE)
    ELSE IF outcome = "204" THEN Returned(FALSE)
    ELSE IF send_catches(outcome) THEN Returned(FALSE)
    ELSE Raised(outcome)


(* ================================================================== *)
(* State                                                               *)
(* ================================================================== *)
VARIABLES
    pc,               \* where main is: the next step, "done" or "traceback"
    environ,          \* os.environ: GITHUB_ACTIONS, PUSHOVER_TOKEN, PUSHOVER_USER
    args,             \* the parsed arguments
    clouds,           \* main's locals, None until assigned
    ovation,          \* [point, region]: aurora_point, aurora_region
    kp,               \* [current, h3, h6]: kp_observed, kp_3h, kp_6h
    wind,             \* [bz, bt]
    indicator,
    traffic_light,    \* "" until assigned
    output,           \* the primary output file: None until written
    badge_files,      \* badges/recommendation.json: None until written
    now,              \* what datetime.now(FINNISH_TZ) returned, None if not called
    send_attempts,    \* urlopen calls made by send_pushover_notification
    send_outcome,     \* the outcome of that call, "" if none was made
    notify_returned,  \* what send_pushover_notification returned, None if nothing
    skip_reason,      \* the reason printed for not sending, "" if none
    guards_checked,   \* the guards evaluated, in order
    raised,           \* the exception that ended the run, "" if none
    input,            \* the arguments of the function under study
    result            \* its result, None until it returned

vars == <<pc, environ, args, clouds, ovation, kp, wind, indicator,
          traffic_light, output, badge_files, now, send_attempts,
          send_outcome, notify_returned, skip_reason, guards_checked,
          raised, input, result>>

fetchedVars == <<clouds, ovation, kp, wind>>
derivedVars == <<indicator, traffic_light>>
fileVars == <<output, badge_files>>
notifyVars == <<now, send_attempts, send_outcome, notify_returned,
                skip_reason, guards_checked>>
callVars == <<input, result>>
runVars == <<pc, environ, args, fetchedVars, derivedVars, fileVars,
             notifyVars, raised>>

(* ------------------------------------------------------------------ *)
(* Bounds and the inputs drawn                                          *)
(* ------------------------------------------------------------------ *)
MaxTime == 2
MaxRows == 4
MaxCells == 4
Margin == 2

Times == 0..MaxTime
Optional(S) == {None} \cup {Some(x) : x \in S}
EnvValues == {None, Some(""), Some("set")}

DEFAULT_LAT == 6501
DEFAULT_LON == 2547

Cell(lon, lat, aurora) == [lon |-> lon, lat |-> lat, aurora |-> aurora]
Row(k, tag) == [kp |-> k, tag |-> tag]
Ok(data) == [kind |-> "ok", data |-> Some(data)]
Failures == {[kind |-> e] : e \in FetchExceptions}
       \cup {[kind |-> "ok", data |-> None], Ok([shape |-> "malformed"])}

ExampleGrid == <<Cell(25, 65, Some(40)), Cell(24, 65, Some(30)),
                 Cell(26, 64, Some(20))>>
ExampleTable == <<KpHeader, Row(Some(3), "observed"), Row(Some(4), "observed"),
                  Row(Some(5), "predicted"), Row(Some(6), "predicted")>>

CloudResponses ==
    Failures \cup
    {Ok([shape |-> "forecast", timeseries |-> ts]) :
        ts \in {<< >>, <<None>>, <<Some(50), Some(100)>>, <<Some(75), Some(0)>>,
                <<Some(100)>>}}

OvationResponses ==
    Failures \cup
    {Ok([shape |-> "grid", coordinates |-> g]) :
        g \in {<< >>, ExampleGrid, <<Cell(24, 65, Some(30))>>,
               <<Cell(25, 65, None)>>}
              \cup {<<Cell(25, 65, Some(v))>> : v \in {20, 50, 100}}}

KpResponses ==
    Failures \cup
    {Ok([shape |-> "table", rows |-> t]) :
        t \in {<< >>, <<KpHeader>>, ExampleTable}}

WindResponses ==
    Failures \cup
    {Ok([shape |-> "summary", Bz |-> Some(-5), Bt |-> Some(10)])}

(* ================================================================== *)
(* main                                                                *)
(* ================================================================== *)
NoCall == input = [fn |-> "main"] /\ result = None

Init ==
    /\ pc = "fetch_clouds"
    /\ environ \in [GITHUB_ACTIONS : EnvValues, PUSHOVER_TOKEN : EnvValues,
                    PUSHOVER_USER : EnvValues]
    /\ args \in [badges : BOOLEAN, notify_start : Optional(Times),
                 notify_end : Optional(Times), lat : {DEFAULT_LAT},
                 lon : {DEFAULT_LON}]
    /\ clouds = None
    /\ ovation = NoOvation
    /\ kp = NoKp
    /\ wind = NoWind
    /\ indicator = None
    /\ traffic_light = ""
    /\ output = None
    /\ badge_files = None
    /\ now = None
    /\ send_attempts = 0
    /\ send_outcome = ""
    /\ notify_returned = None
    /\ skip_reason = ""
    /\ guards_checked = << >>
    /\ raised = ""
    /\ NoCall

(* An exception no handler catches leaves main with a traceback. *)
Propagate(e) ==
    /\ pc' = "traceback"
    /\ raised' = e

FetchClouds ==
    /\ pc = "fetch_clouds"
    /\ \E response \in CloudResponses :
         LET r == fetch_cloud_coverage(response)
         IN  IF r.raised /= ""
             THEN Propagate(r.raised) /\ UNCHANGED clouds
             ELSE clouds' = r.value /\ pc' = "fetch_ovation" /\ UNCHANGED raised
    /\ UNCHANGED <<environ, args, ovation, kp, wind, derivedVars, fileVars,
                   notifyVars, callVars>>

FetchOvation ==
    /\ pc = "fetch_ovation"
    /\ \E response \in OvationResponses :
         LET r == fetch_ovation_data(response, args.lat, args.lon)
         IN  IF r.raised /= ""
             THEN Propagate(r.raised) /\ UNCHANGED ovation
             ELSE ovation' = r.value /\ pc' = "fetch_kp" /\ UNCHANGED raised
    /\ UNCHANGED <<environ, args, clouds, kp, wind, derivedVars, fileVars,
                   notifyVars, callVars>>

FetchKp ==
    /\ pc = "fetch_kp"
    /\ \E response \in KpResponses :
         LET r == fetch_kp_indices(response)
         IN  IF r.raised /= ""
             THEN Propagate(r.raised) /\ UNCHANGED kp
             ELSE kp' = r.value /\ pc' = "fetch_wind" /\ UNCHANGED raised
    /\ UNCHANGED <<environ, args, clouds, ovation, wind, derivedVars, fileVars,
                   notifyVars, callVars>>

FetchSolarWind ==
    /\ pc = "fetch_wind"
    /\ \E response \in WindResponses :
         LET r == fetch_solar_wind(response)
         IN  IF r.raised /= ""
             THEN Propagate(r.raised) /\ UNCHANGED wind
             ELSE wind' = r.value /\ pc' = "derive" /\ UNCHANGED raised
    /\ UNCHANGED <<environ, args, clouds, ovation, kp, derivedVars, fileVars,
                   notifyVars, callVars>>

Derive ==
    /\ pc = "derive"
    /\ indicator' = Some(calculate_aurora_indicator(ovation.point, clouds))
    /\ traffic_light' = calculate_traffic_light(Val(indicator'))
    /\ pc' = "write"
    /\ UNCHANGED <<environ, args, fetchedVars, fileVars, notifyVars, raised,
                   callVars>>

(* the primary output file; last-update, the time of the write, is left out *)
Snapshot ==
    [cloud_coverage |-> clouds,
     aurora_probability |-> ovation.point,
     aurora_probability_region |-> ovation.region,
     kp_index |-> kp.current,
     kp_index_3h |-> kp.h3,
     kp_index_6h |-> kp.h6,
     bz |-> wind.bz,
     bt |-> wind.bt,
     aurora_indicator |-> Val(indicator),
     aurora_traffic_light |-> traffic_light]

MainAfterWriteSkipsBadges(badges) == "notify"

(* if args.badges: write_badges(...) *)
main_after_write(badges) == IF badges THEN "write_badges" ELSE "notify"

WriteOutput ==
    /\ pc = "write"
    /\ output' = Some(Snapshot)
    /\ pc' = main_after_write(args.badges)
    /\ UNCHANGED <<environ, args, fetchedVars, derivedVars, badge_files,
                   notifyVars, raised, callVars>>

(* write_badges: of the six badge files the recommendation badge is kept *)
WriteBadges ==
    /\ pc = "write_badges"
    /\ badge_files' = Some([recommendation |->
                               get_recommendation_badge(traffic_light)])
    /\ pc' = "notify"
    /\ UNCHANGED <<environ, args, fetchedVars, derivedVars, output,
                   notifyVars, raised, callVars>>

(* send_pushover_notification, and the end of main after it *)
Notify ==
    /\ pc = "notify"
    /\ \E t \in Times, outcome \in SendOutcomes :
         LET g == notification_guards(environ, args.notify_start,
                                      args.notify_end, traffic_light, t)
             r == pushover_send(outcome)
         IN  /\ guards_checked' = g.checked
             /\ skip_reason' = g.reason
             /\ now' = IF g.read_clock THEN Some(t) ELSE None
             /\ IF g.reason /= ""
                THEN /\ notify_returned' = Some(FALSE)
                     /\ pc' = "done"
                     /\ UNCHANGED <<send_attempts, send_outcome, raised>>
                ELSE /\ send_attempts' = send_attempts + 1
                     /\ send_outcome' = outcome
                     /\ IF r.raised /= ""
                        THEN Propagate(r.raised) /\ UNCHANGED notify_returned
                        ELSE /\ notify_returned' = Some(r.value)
                             /\ pc' = "done"
                             /\ UNCHANGED raised
    /\ UNCHANGED <<environ, args, fetchedVars, derivedVars, fileVars, callVars>>

Next ==
    \/ FetchClouds
    \/ FetchOvation
    \/ FetchKp
    \/ FetchSolarWind
    \/ Derive
    \/ WriteOutput
    \/ WriteBadges
    \/ Notify

Spec == Init /\ [][Next]_vars


(* ================================================================== *)
(* The functions on their own: the arguments are drawn, the function   *)
(* is called once.  main's state stays as constructed.                 *)
(* ================================================================== *)
MainIdle ==
    /\ pc = "idle"
    /\ environ = [GITHUB_ACTIONS |-> None, PUSHOVER_TOKEN |-> None,
                  PUSHOVER_USER |-> None]
    /\ args = [badges |-> FALSE, notify_start |-> None, notify_end |-> None,
               lat |-> DEFAULT_LAT, lon |-> DEFAULT_LON]
    /\ clouds = None
    /\ ovation = NoOvation
    /\ kp = NoKp
    /\ wind = NoWind
    /\ indicator = None
    /\ traffic_light = ""
    /\ output = None
    /\ badge_files = None
    /\ now = None
    /\ send_attempts = 0
    /\ send_outcome = ""
    /\ notify_returned = None
    /\ skip_reason = ""
    /\ guards_checked = << >>
    /\ raised = ""

Called(fn) == input.fn = fn /\ ~IsNone(result)

(* ---------------- calculate_traffic_light ---------------- *)
Scores == 0..(FULL_PERCENT * SCALE)

InitClassify ==
    /\ MainIdle
    /\ input \in [fn : {"calculate_traffic_light"}, aurora_indicator : Scores]
    /\ result = None

CallTrafficLight ==
    /\ input.fn = "calculate_traffic_light"
    /\ IsNone(result)
    /\ result' = Some(calculate_traffic_light(input.aurora_indicator))
    /\ UNCHANGED <<runVars, input>>

SpecClassify == InitClassify /\ [][CallTrafficLight]_vars

(* ---------------- calculate_aurora_indicator ---------------- *)
Percents == 0..(FULL_PERCENT + Margin)

InitIndicator ==
    /\ MainIdle
    /\ input \in [fn : {"calculate_aurora_indicator"},
                  aurora_probability : Optional(Percents),
                  clouds : Optional(Percents)]
    /\ result = None

CallIndicator ==
    /\ input.fn = "calculate_aurora_indicator"
    /\ IsNone(result)
    /\ result' = Some(calculate_aurora_indicator(input.aurora_probability,
                                                 input.clouds))
    /\ UNCHANGED <<runVars, input>>

SpecIndicator == InitIndicator /\ [][CallIndicator]_vars

(* ---------------- fetch_kp_indices ---------------- *)
SeqsUpTo(S, n) == UNION {[1..k -> S] : k \in 0..n}

KpRows ==
    {Row(k, tag) : k \in Optional({3, 4, 5, 6}), tag \in {"observed", "predicted"}}
    \cup {Row(Some(5), "")}

InitKp ==
    /\ MainIdle
    /\ input \in [fn : {"fetch_kp_indices"}, rows : SeqsUpTo(KpRows, MaxRows)]
    /\ result = None

CallKp ==
    /\ input.fn = "fetch_kp_indices"
    /\ IsNone(result)
    /\ result' = Some(fetch_kp_indices(
                        Ok([shape |-> "table",
                            rows |-> <<KpHeader>> \o input.rows])).value)
    /\ UNCHANGED <<runVars, input>>

SpecKp == InitKp /\ [][CallKp]_vars

(* ---------------- fetch_ovation_data ---------------- *)
GridCells ==
    {Cell(25, 65, Some(40)), Cell(25, 65, Some(15)), Cell(24, 65, Some(30)),
     Cell(26, 64, Some(20)), Cell(27, 65, Some(50)), Cell(25, 67, Some(60)),
     Cell(65, 25, Some(70)), Cell(25, 65, None), Cell(27, 63, None)}

TargetLats == {6450, DEFAULT_LAT, 6550}
TargetLons == {DEFAULT_LON, 2650}

InitOvation ==
    /\ MainIdle
    /\ input \in [fn : {"fetch_ovation_data"}, lat : TargetLats,
                  lon : TargetLons,
                  coordinates : SeqsUpTo(GridCells, MaxCells)]
    /\ result = None

CallOvation ==
    /\ input.fn = "fetch_ovation_data"
    /\ IsNone(result)
    /\ result' = Some(fetch_ovation_data(
                        Ok([shape |-> "grid",
                            coordinates |-> input.coordinates]),
                        input.lat, input.lon).value)
    /\ UNCHANGED <<runVars, input>>

SpecOvation == InitOvation /\ [][CallOvation]_vars


(* ================================================================== *)
(* Properties                                                          *)
(* ================================================================== *)
Ended == pc \in {"done", "traceback"}

FlagSet == Truthy(environ.GITHUB_ACTIONS)
CredentialsPresent ==
    Truthy(environ.PUSHOVER_TOKEN) /\ Truthy(environ.PUSHOVER_USER)
NoWindow == IsNone(args.notify_start) /\ IsNone(args.notify_end)
(* the time read lies in [start, end], an absent bound being no bound *)
InWindow ==
    \/ NoWindow
    \/ /\ ~IsNone(now)
       /\ IsNone(args.notify_start) \/ Val(args.notify_start) <= Val(now)
       /\ IsNone(args.notify_end) \/ Val(now) <= Val(args.notify_end)
ClassNotifies == traffic_light \in {"yellow", "red"}
AllGuardsHold == FlagSet /\ CredentialsPresent /\ InWindow /\ ClassNotifies

(* C1: every run that has ended, however each of the four fetches went, has
   written the primary output file: no exception raised inside a reader ends
   the run before the write in main. *)
C1_OutputWrittenInEveryRun == Ended => ~IsNone(output)

(* C2: a run makes at most one send attempt, and a run that has ended made
   one exactly when all four guards hold (flag set, both credentials present,
   time read inside the inclusive window, class yellow or red); class green
   never sends, and class red with flag and credentials and no window sends
   exactly once. *)
C2_OneSendExactlyWhenGuardsHold ==
    /\ send_attempts \in {0, 1}
    /\ ~Ended => send_attempts = 0
    /\ Ended => (send_attempts = 1 <=> AllGuardsHold)
    /\ traffic_light = "green" => send_attempts = 0
    /\ (Ended /\ traffic_light = "red" /\ FlagSet /\ CredentialsPresent
          /\ NoWindow)
       => send_attempts = 1

C2_Witness_SendAtWindowStart ==
    /\ pc = "done"
    /\ send_attempts = 1
    /\ ~IsNone(now)
    /\ args.notify_start = now
    /\ args.notify_end = now
    /\ traffic_light = "yellow"

(* C3: when the one send attempt fails for a transport reason (anything but
   an answer with status 200), send_pushover_notification returns False, no
   exception leaves it, and main ends normally after that single attempt. *)
C3_SendFailureIsRecovered ==
    (Ended /\ send_attempts >= 1 /\ send_outcome /= "200")
    => /\ pc = "done"
       /\ raised = ""
       /\ notify_returned = Some(FALSE)
       /\ send_attempts = 1

GuardOrder == <<GUARD_ACTIONS, GUARD_CREDENTIALS, GUARD_WINDOW, GUARD_CLASS>>

(* C4: the guards are evaluated in the order flag, credentials, window,
   class; the reason reported is that of the first guard that fails in this
   order, no guard after it is evaluated, and the reasons are distinct. *)
C4_FirstFailingGuardReported ==
    /\ Cardinality({REASON_NOT_ACTIONS, REASON_CREDENTIALS, REASON_BEFORE,
                    REASON_AFTER, REASON_BELOW_YELLOW, ""}) = 6
    /\ guards_checked = SubSeq(GuardOrder, 1, Len(guards_checked))
    /\ (Ended /\ guards_checked /= << >>) =>
         /\ ~FlagSet => (skip_reason = REASON_NOT_ACTIONS /\ Len(guards_checked) = 1)
         /\ (FlagSet /\ ~CredentialsPresent)
              => (skip_reason = REASON_CREDENTIALS /\ Len(guards_checked) = 2)
         /\ (FlagSet /\ CredentialsPresent /\ ~InWindow)
              => /\ Len(guards_checked) = 3
                 /\ skip_reason =
                      IF ~IsNone(args.notify_start)
                         /\ Val(now) < Val(args.notify_start)
                      THEN REASON_BEFORE ELSE REASON_AFTER
         /\ (FlagSet /\ CredentialsPresent /\ InWindow /\ ~ClassNotifies)
              => (skip_reason = REASON_BELOW_YELLOW /\ Len(guards_checked) = 4)
         /\ AllGuardsHold => (skip_reason = "" /\ Len(guards_checked) = 4)

C4_Witness_WindowAndClassBothFail ==
    /\ pc = "done"
    /\ FlagSet
    /\ CredentialsPresent
    /\ ~InWindow
    /\ ~ClassNotifies
    /\ skip_reason = REASON_AFTER
    /\ guards_checked = <<GUARD_ACTIONS, GUARD_CREDENTIALS, GUARD_WINDOW>>

(* C5: on every score of [0,100] calculate_traffic_light yields exactly one
   of four classes: red from 50, yellow from 25 to below 50, green from 10 to
   below 25, black below 10; the values 10, 25 and 50 are in the higher band. *)
C5_FourContiguousBands ==
    Called("calculate_traffic_light") =>
        LET score == input.aurora_indicator
            light == Val(result)
        IN  /\ light \in {"red", "yellow", "green", "black"}
            /\ light = "red" <=> score >= 50 * SCALE
            /\ light = "yellow" <=> (25 * SCALE <= score /\ score < 50 * SCALE)
            /\ light = "green" <=> (10 * SCALE <= score /\ score < 25 * SCALE)
            /\ light = "black" <=> score < 10 * SCALE

C5_Witness_BoundaryInHigherBand ==
    /\ Called("calculate_traffic_light")
    /\ input.aurora_indicator = 25 * SCALE
    /\ result = Some("yellow")

(* C6: for a present probability, calculate_aurora_indicator does not
   decrease when the probability grows at fixed cloud coverage (present or
   absent) and does not grow when the cloud coverage grows at fixed
   probability, across the 50% breakpoint and after clamping and rounding. *)
C6_IndicatorMonotone ==
    (Called("calculate_aurora_indicator") /\ ~IsNone(input.aurora_probability)) =>
        /\ \A p2 \in Percents :
             p2 >= Val(input.aurora_probability) =>
               calculate_aurora_indicator(Some(p2), input.clouds) >= Val(result)
        /\ ~IsNone(input.clouds) =>
             \A c2 \in Percents :
               c2 >= Val(input.clouds) =>
                 calculate_aurora_indicator(input.aurora_probability, Some(c2))
                   <= Val(result)

C6_Witness_RoundedPastBreakpoint ==
    /\ Called("calculate_aurora_indicator")
    /\ input.aurora_probability = Some(33)
    /\ input.clouds = Some(51)
    /\ result = Some(323)
    /\ calculate_aurora_indicator(Some(33), Some(50)) = 330

(* C7: for a table whose rows read by the function carry numeric values,
   fetch_kp_indices (header skipped) returns the value of the last row tagged
   observed as current, the values of the rows one and two positions after it,
   whatever their tags, as 3-hour and 6-hour values, absence for each of these
   positions that does not exist, and three absences when no row is tagged
   observed. *)
C7_LastObservedAndNextTwo ==
    Called("fetch_kp_indices") =>
        LET rows == input.rows
            observed == {i \in 1..Len(rows) : rows[i].tag = "observed"}
            At(i) == IF i <= Len(rows) THEN rows[i].kp ELSE None
        IN  /\ observed = {} => Val(result) = NoKp
            /\ \A i \in observed :
                 ((\A j \in observed : j <= i)
                    /\ \A k \in {i, i + 1, i + 2} :
                         k <= Len(rows) => ~IsNone(rows[k].kp))
                 => /\ Val(result).current = rows[i].kp
                    /\ Val(result).h3 = At(i + 1)
                    /\ Val(result).h6 = At(i + 2)

C7_Witness_SpecExample ==
    /\ Called("fetch_kp_indices")
    /\ input.rows = Tail(ExampleTable)
    /\ Val(result) = [current |-> Some(4), h3 |-> Some(5), h6 |-> Some(6)]

(* the integers nearest to x hundredths: two of them at an exact half *)
NearestInts(x) ==
    {n \in (x \div HUNDREDTHS - 1)..(x \div HUNDREDTHS + 2) :
        2 * Abs(n * HUNDREDTHS - x) <= HUNDREDTHS}

(* C8: for a grid whose cells in the window carry numeric values,
   fetch_ovation_data returns as point probability the value of the (last)
   cell whose coordinates equal the target rounded to the nearest integer,
   absence if there is none, and as regional value the average, rounded to one
   decimal place, of all cells within 1 degree (inclusive) of the rounded
   target in both coordinates, absence if there is none; each is decided on
   its own. *)
C8_PointAndRegionalAverage ==
    Called("fetch_ovation_data") =>
        LET cells == input.coordinates
        IN  \E tlat \in NearestInts(input.lat), tlon \in NearestInts(input.lon) :
              LET exact == {i \in 1..Len(cells) :
                              cells[i].lat = tlat /\ cells[i].lon = tlon}
                  window == {i \in 1..Len(cells) :
                               /\ Abs(cells[i].lat - tlat) <= 1
                               /\ Abs(cells[i].lon - tlon) <= 1}
                  total == SeqSum([i \in 1..Len(cells) |->
                                     IF i \in window THEN Val(cells[i].aurora)
                                     ELSE 0])
                  n == Cardinality(window)
              IN  (\A i \in window : ~IsNone(cells[i].aurora)) =>
                    /\ exact = {} => IsNone(Val(result).point)
                    /\ exact /= {} =>
                         \E i \in exact :
                           /\ \A j \in exact : j <= i
                           /\ Val(result).point = cells[i].aurora
                    /\ window = {} => IsNone(Val(result).region)
                    /\ window /= {} =>
                         /\ ~IsNone(Val(result).region)
                         /\ 2 * Abs(Val(Val(result).region) * n - SCALE * total) <= n

C8_Witness_RegionWithoutPoint ==
    /\ Called("fetch_ovation_data")
    /\ input.lat = DEFAULT_LAT
    /\ input.lon = DEFAULT_LON
    /\ input.coordinates = <<Cell(24, 65, Some(30)), Cell(26, 64, Some(20)),
                             Cell(27, 65, Some(50))>>
    /\ Val(result) = [point |-> None, region |-> Some(250)]

(* C9: the snapshot's aurora-traffic-light is red, yellow, green or black,
   never gray; the recommendation badge's color is red, yellow, green or gray,
   never black; for red, yellow and green both carry the same color, and for
   black the badge carries gray with the message Definitely not. *)
C9_BlackInSnapshotGrayInBadge ==
    /\ ~IsNone(output) =>
         /\ Val(output).aurora_traffic_light \in {"red", "yellow", "green", "black"}
         /\ Val(output).aurora_traffic_light =
              calculate_traffic_light(Val(output).aurora_indicator)
    /\ ~IsNone(badge_files) =>
         LET light == Val(output).aurora_traffic_light
             badge == Val(badge_files).recommendation
         IN  /\ ~IsNone(output)
             /\ badge.color \in {"red", "yellow", "green", "gray"}
             /\ light \in {"red", "yellow", "green"} => badge.color = light
             /\ light = "black" =>
                  (badge.color = "gray" /\ badge.message = "Definitely not")

C9_Witness_BottomBand ==
    /\ ~IsNone(output)
    /\ ~IsNone(badge_files)
    /\ Val(output).aurora_traffic_light = "black"
    /\ Val(badge_files).recommendation.color = "gray"
    /\ ~IsNone(Val(output).aurora_probability)

(* C10: whenever a send attempt has been made, the primary output file has
   been written, the badge files too when badge emission is enabled, and the
   snapshot has a present aurora-probability, an aurora-indicator of at least
   25 and a yellow or red aurora-traffic-light; a run whose point probability
   is absent makes no send attempt. *)
C10_SendOnlyAfterWriteOfNotifyingSnapshot ==
    /\ send_attempts > 0 =>
         /\ ~IsNone(output)
         /\ args.badges => ~IsNone(badge_files)
         /\ ~IsNone(Val(output).aurora_probability)
         /\ Val(output).aurora_indicator >= 25 * SCALE
         /\ Val(output).aurora_traffic_light \in {"yellow", "red"}
    /\ IsNone(ovation.point) => send_attempts = 0

C10_Witness_SendAtYellowBoundary ==
    /\ send_attempts = 1
    /\ args.badges
    /\ ~IsNone(badge_files)
    /\ Val(output).aurora_indicator = 25 * SCALE
    /\ Val(output).aurora_probability = Some(50)
    /\ Val(output).cloud_coverage = Some(75)

=============================================================================
